---- MODULE Spec2Model ----
(***************************************************************************)
(* Siril log analyzer (siril_log_analyzer.py): SirilLogParser.parse() and  *)
(* the report generators, as a state machine.                              *)
(*                                                                         *)
(* A log line is kept as the record of what the parser's substring tests   *)
(* and regular expressions find in it: one boolean per substring test,     *)
(* one field per regex group (None when the regex does not match).  A line *)
(* may carry several markers at once; the if/elif chains of the passes     *)
(* decide which of them is acted upon.                                     *)
(*                                                                         *)
(* Numbers: counts are integers; times are seconds of the day; FWHM values *)
(* are in tenths of a pixel; rejection percentages are in thousandths.     *)
(* Within the bounds used here the float expressions of the source         *)
(* (count / initial * 100 against 60/80/85/95, int(count / initial * 40),  *)
(* the '.0f' formatting) agree with the exact integer arithmetic below.    *)
(***************************************************************************)
EXTENDS Integers, Sequences, FiniteSets, TLC

\* ---------------------------------------------------------------- bounds
MaxLen == 3        \* lines in a log
MaxT == 2          \* largest time of day (seconds) in a leading time token
MaxCount == 5      \* largest image count written in a log line
MaxFwhmLen == 11   \* lines in a log of FWHM samples
MaxBefore == 6     \* lines before the stacking end line of a log
MaxPhaseLen == 7   \* lines in a log of phase markers

\* ------------------------------------------------------- program constants
bar_width == 40
MinFwhmSamples == 10
FwhmRangeLimit == 20
RetentionNormal == 80
RetentionReview == 60
RateExcellent == 95
RateGood == 85
WindowBack == 5
MosaicLimit == 100

None == -1         \* Python None for a non-negative optional value
BadTime == -2      \* a leading token \d\d:\d\d:\d\d: that strptime rejects
BadFloat == -2     \* text matched by [\d\.]+ that float() rejects, e.g. 1..2

\* ------------------------------------------------------------------ lines
Blank ==
    [ tok |-> None,
      par |-> FALSE, procs |-> None,
      convStart |-> FALSE, procFiles |-> None,
      convEnd |-> FALSE, converted |-> None,
      psOk |-> FALSE, psFail |-> FALSE,
      psSum |-> FALSE, sumN |-> None, sumM |-> None,
      fwhm |-> None,
      hasRot |-> FALSE, rot |-> 0,
      bg |-> FALSE, reg |-> FALSE,
      stStart |-> FALSE, stEnd |-> FALSE, stacked |-> None,
      rej |-> FALSE, rejCh |-> None, rejLow |-> None, rejHigh |-> None ]

At(t, l) == [l EXCEPT !.tok = t]

ParallelLine(n) == [Blank EXCEPT !.par = TRUE, !.procs = n]
ConvertProcessing(n) == [Blank EXCEPT !.convStart = TRUE, !.procFiles = n]
ConvertedFiles(n) == [Blank EXCEPT !.convEnd = TRUE, !.converted = n]
SolvedLine == [Blank EXCEPT !.psOk = TRUE]
NotSolvedLine == [Blank EXCEPT !.psFail = TRUE]
SummaryLine(n, m) == [Blank EXCEPT !.psSum = TRUE, !.sumN = n, !.sumM = m]
FwhmLine(v) == [Blank EXCEPT !.fwhm = v]
RotationLine(v) == [Blank EXCEPT !.hasRot = TRUE, !.rot = v]
BackgroundLine == [Blank EXCEPT !.bg = TRUE]
RegistrationLine == [Blank EXCEPT !.reg = TRUE]
StartingStacking == [Blank EXCEPT !.stStart = TRUE]
StackingComplete == [Blank EXCEPT !.stEnd = TRUE]
StackedLine(n) == [Blank EXCEPT !.stacked = n]
RejectionLine(c, lo, hi) ==
    [Blank EXCEPT !.rej = TRUE, !.rejCh = c, !.rejLow = lo, !.rejHigh = hi]

SeqsUpTo(S, n) == UNION { [1..k -> S] : k \in 0..n }

\* the input file: open() fails, or readlines() returns these lines
UnreadableFile == [readable |-> FALSE, lines |-> <<>>]
ReadableFile(lines) == [readable |-> TRUE, lines |-> lines]

\* -------------------------------------------------------------- the state
VARIABLES
    file,        \* the input file
    pc,          \* the statement the program is at
    log_lines,   \* SirilLogParser.log_lines
    analysis,    \* SirilLogParser.analysis (LogAnalysis)
    raised,      \* the exception that escaped, "none" if none
    output       \* the report returned by generate_waterfall / generate_summary

vars == <<file, pc, log_lines, analysis, raised, output>>

LogAnalysis ==
    [ phases |-> <<>>,
      initial_images |-> 0,
      final_images |-> 0,
      plate_solve_failures |-> 0,
      plate_solve_successes |-> 0,
      fwhm_values |-> <<>>,
      rotation_angles |-> <<>>,
      rejection_stats |-> <<>>,
      processors_used |-> 0,
      patterns |-> <<>>,
      errors |-> <<>>,
      timestamp_gaps |-> <<>> ]

PhaseInfo(name) ==
    [ name |-> name, start_time |-> None, end_time |-> None,
      image_count_in |-> None, image_count_out |-> None ]

\* a duration that is never reported below zero
WithDurationClamped(phase) ==
    [ name |-> phase.name, start_time |-> phase.start_time,
      end_time |-> phase.end_time,
      duration |-> IF phase.end_time >= phase.start_time
                   THEN phase.end_time - phase.start_time ELSE 0,
      image_count_in |-> phase.image_count_in,
      image_count_out |-> phase.image_count_out ]

\* phase.duration = phase.end_time - phase.start_time, then appended
WithDuration(phase) ==
    [ name |-> phase.name, start_time |-> phase.start_time,
      end_time |-> phase.end_time,
      duration |-> phase.end_time - phase.start_time,
      image_count_in |-> phase.image_count_in,
      image_count_out |-> phase.image_count_out ]

\* appending as soon as a start time was found
AppendIfStarted(phases, phase) ==
    IF phase.start_time # None
    THEN Append(phases, WithDuration(phase))
    ELSE phases

AppendIfTimed(phases, phase) ==
    IF phase.start_time # None /\ phase.end_time # None
    THEN Append(phases, WithDuration(phase))
    ELSE phases

\* _parse_timestamp: the time of a well-formed leading token, else None
_parse_timestamp(line) == IF line.tok >= 0 THEN line.tok ELSE None

\* --------------------------------------------------- _extract_initial_info
RECURSIVE InitialScan(_, _, _)
InitialScan(lines, i, procs) ==
    IF i > Len(lines) THEN procs
    ELSE InitialScan(lines, i + 1,
             IF lines[i].par /\ lines[i].procs # None
             THEN lines[i].procs ELSE procs)

_extract_initial_info(a, lines) ==
    [a EXCEPT !.processors_used = InitialScan(lines, 1, a.processors_used)]

\* ----------------------------------------------- _extract_conversion_phase
ConvStep(st, line) ==
    IF line.convStart THEN
        LET p == [st.phase EXCEPT !.start_time = _parse_timestamp(line)]
        IN  IF line.procFiles # None
            THEN [ phase |-> [p EXCEPT !.image_count_in = line.procFiles,
                                       !.image_count_out = line.procFiles],
                   initial |-> IF st.initial = 0 THEN line.procFiles
                               ELSE st.initial ]
            ELSE [st EXCEPT !.phase = p]
    ELSE IF line.convEnd THEN
        LET p == [st.phase EXCEPT !.end_time = _parse_timestamp(line)]
        IN  IF line.converted # None
            THEN [st EXCEPT !.phase = [p EXCEPT !.image_count_out = line.converted]]
            ELSE [st EXCEPT !.phase = p]
    ELSE st

RECURSIVE ConvScan(_, _, _)
ConvScan(lines, i, st) ==
    IF i > Len(lines) THEN st
    ELSE ConvScan(lines, i + 1, ConvStep(st, lines[i]))

_extract_conversion_phase(a, lines) ==
    LET st == ConvScan(lines, 1, [ phase |-> PhaseInfo("File Conversion"),
                                   initial |-> a.initial_images ])
    IN  [a EXCEPT !.initial_images = st.initial,
                  !.phases = AppendIfTimed(a.phases, st.phase)]

\* ---------------------------------------------- _extract_plate_solve_phase
FirstTime(phase, line) ==
    IF phase.start_time = None THEN _parse_timestamp(line) ELSE phase.start_time

\* a summary line that only closes the phase and leaves the running counters
PlateMarkersKeepCounters(st, line) ==
    IF line.psOk THEN
        [st EXCEPT !.phase.start_time = FirstTime(st.phase, line),
                   !.phase.end_time = _parse_timestamp(line),
                   !.solved_count = st.solved_count + 1]
    ELSE IF line.psFail THEN
        [st EXCEPT !.phase.start_time = FirstTime(st.phase, line),
                   !.phase.end_time = _parse_timestamp(line),
                   !.failed_count = st.failed_count + 1]
    ELSE IF line.psSum THEN
        [st EXCEPT !.phase.end_time = _parse_timestamp(line)]
    ELSE st

PlateMarkers(st, line) ==
    IF line.psOk THEN
        [st EXCEPT !.phase.start_time = FirstTime(st.phase, line),
                   !.phase.end_time = _parse_timestamp(line),
                   !.solved_count = st.solved_count + 1]
    ELSE IF line.psFail THEN
        [st EXCEPT !.phase.start_time = FirstTime(st.phase, line),
                   !.phase.end_time = _parse_timestamp(line),
                   !.failed_count = st.failed_count + 1]
    ELSE IF line.psSum THEN
        IF line.sumN # None
        THEN [st EXCEPT !.solved_count = line.sumN,
                        !.failed_count = line.sumM - line.sumN,
                        !.phase.end_time = _parse_timestamp(line)]
        ELSE [st EXCEPT !.phase.end_time = _parse_timestamp(line)]
    ELSE st

PlateStep(st, line) ==
    LET m == PlateMarkers(st, line)
    IN  [m EXCEPT !.fwhm = IF line.fwhm # None THEN Append(m.fwhm, line.fwhm)
                           ELSE m.fwhm,
                  !.rot = IF line.hasRot THEN Append(m.rot, line.rot)
                          ELSE m.rot]

RECURSIVE PlateScan(_, _, _)
PlateScan(lines, i, st) ==
    IF i > Len(lines) THEN st
    ELSE PlateScan(lines, i + 1, PlateStep(st, lines[i]))

_extract_plate_solve_phase(a, lines) ==
    LET st == PlateScan(lines, 1, [ phase |-> PhaseInfo("Plate Solving"),
                                    solved_count |-> 0, failed_count |-> 0,
                                    fwhm |-> a.fwhm_values,
                                    rot |-> a.rotation_angles ])
        total == st.solved_count + st.failed_count
        phase == [st.phase EXCEPT
                    !.image_count_in = IF total > 0 THEN total ELSE None,
                    !.image_count_out = IF st.solved_count > 0
                                        THEN st.solved_count ELSE None]
    IN  [a EXCEPT !.plate_solve_successes = st.solved_count,
                  !.plate_solve_failures = st.failed_count,
                  !.fwhm_values = st.fwhm,
                  !.rotation_angles = st.rot,
                  !.phases = AppendIfTimed(a.phases, phase)]

\* ------------------------ _extract_background_phase, _extract_registration_phase
RECURSIVE MarkerScan(_, _, _, _)
MarkerScan(lines, i, isBackground, phase) ==
    IF i > Len(lines) THEN phase
    ELSE MarkerScan(lines, i + 1, isBackground,
             IF (IF isBackground THEN lines[i].bg ELSE lines[i].reg)
             THEN [phase EXCEPT !.start_time = FirstTime(phase, lines[i]),
                                !.end_time = _parse_timestamp(lines[i])]
             ELSE phase)

_extract_background_phase(a, lines) ==
    [a EXCEPT !.phases = AppendIfTimed(a.phases,
        MarkerScan(lines, 1, TRUE, PhaseInfo("Background Extraction")))]

_extract_registration_phase(a, lines) ==
    [a EXCEPT !.phases = AppendIfTimed(a.phases,
        MarkerScan(lines, 1, FALSE, PhaseInfo("Registration")))]

\* ------------------------------------------------ _extract_stacking_phase
Max2(a, b) == IF a >= b THEN a ELSE b
Min2(a, b) == IF a <= b THEN a ELSE b

\* the window scanned from the end line backwards: the match nearest to it
FirstStackedNearest(lines, i) ==
    LET window == { j \in Max2(1, i - WindowBack) .. Min2(Len(lines), i) :
                        lines[j].stacked # None }
    IN  IF window = {} THEN 0
        ELSE CHOOSE j \in window : \A k \in window : j >= k

\* for j in range(max(0, i-5), min(len, i+1)): the first line of the window
\* holding "N images have been stacked", 0 if none (i and j count from 1 here)
FirstStacked(lines, i) ==
    LET window == { j \in Max2(1, i - WindowBack) .. Min2(Len(lines), i) :
                        lines[j].stacked # None }
    IN  IF window = {} THEN 0
        ELSE CHOOSE j \in window : \A k \in window : j <= k

\* keeping every pair seen instead of overwriting the channel's entry
DictAppend(d, key, low, high) ==
    Append(d, [channel |-> key, low |-> low, high |-> high])

\* rejection_stats[key] = value on a dict that keeps insertion order
DictSet(d, key, low, high) ==
    IF \E k \in 1..Len(d) : d[k].channel = key
    THEN [k \in 1..Len(d) |->
            IF d[k].channel = key
            THEN [channel |-> key, low |-> low, high |-> high] ELSE d[k]]
    ELSE Append(d, [channel |-> key, low |-> low, high |-> high])

StackStep(st, lines, i) ==
    LET line == lines[i] IN
    IF st.raised # "none" THEN st
    ELSE IF line.stStart THEN
        [st EXCEPT !.phase.start_time = _parse_timestamp(line)]
    ELSE IF line.stEnd THEN
        LET j == FirstStacked(lines, i)
            p == [st.phase EXCEPT !.end_time = _parse_timestamp(line)]
        IN  IF j # 0
            THEN [st EXCEPT !.phase = [p EXCEPT !.image_count_out = lines[j].stacked],
                            !.final = lines[j].stacked]
            ELSE [st EXCEPT !.phase = p]
    ELSE IF line.rej THEN
        IF line.rejCh = None THEN st
        ELSE IF line.rejLow = BadFloat \/ line.rejHigh = BadFloat
             THEN [st EXCEPT !.raised = "ValueError"]
        ELSE [st EXCEPT !.rej = DictSet(st.rej, line.rejCh, line.rejLow, line.rejHigh)]
    ELSE st

RECURSIVE StackScan(_, _, _)
StackScan(lines, i, st) ==
    IF i > Len(lines) THEN st
    ELSE StackScan(lines, i + 1, StackStep(st, lines, i))

\* the record after the pass, and the exception that left it ("none" if none)
_extract_stacking_phase(a, lines) ==
    LET st == StackScan(lines, 1, [ phase |-> PhaseInfo("Stacking"),
                                    final |-> a.final_images,
                                    rej |-> a.rejection_stats,
                                    raised |-> "none" ])
        b == [a EXCEPT !.final_images = st.final, !.rejection_stats = st.rej]
    IN  IF st.raised # "none"
        THEN [analysis |-> b, raised |-> st.raised]
        ELSE [analysis |-> [b EXCEPT !.phases = AppendIfTimed(a.phases, st.phase)],
              raised |-> "none"]

\* --------------------------------------------------------- _detect_patterns
SeqMin(s) == CHOOSE x \in { s[k] : k \in 1..Len(s) } : \A k \in 1..Len(s) : x <= s[k]
SeqMax(s) == CHOOSE x \in { s[k] : k \in 1..Len(s) } : \A k \in 1..Len(s) : x >= s[k]
Abs(x) == IF x < 0 THEN -x ELSE x
Opt(cond, item) == IF cond THEN <<item>> ELSE <<>>

_detect_patterns(a) ==
    [a EXCEPT !.patterns =
        Opt(a.plate_solve_failures > 0, "Plate Solving")
        \o Opt(a.initial_images > 0 /\ a.final_images > 0, "Overall Retention")
        \o Opt(a.fwhm_values # <<>>, "FWHM Range")
        \o Opt(a.rotation_angles # <<>>
               /\ Abs(SeqMax(a.rotation_angles) - SeqMin(a.rotation_angles))
                    > MosaicLimit, "Mosaic Pattern")
        \o Opt(a.processors_used > 0, "Parallelization")
        \o Opt(a.rejection_stats # <<>>, "Pixel Rejection")]

\* ------------------------------------------------------- generate_waterfall
\* f"{x:.0f}" of the quotient n / d (d > 0): the nearest integer, ties to even
RoundHalfEven(n, d) ==
    LET q == n \div d
        r == n - q * d
    IN  IF 2 * r < d THEN q
        ELSE IF 2 * r > d THEN q + 1
        ELSE IF q % 2 = 0 THEN q ELSE q + 1

\* int(x) of the quotient n / d (d > 0): truncation towards zero
Truncate(n, d) == IF n >= 0 THEN n \div d ELSE -((-n) \div d)

\* make_bar: the number of fill characters
make_bar(count, max_count) ==
    IF max_count = 0 THEN 0
    ELSE Truncate(count * bar_width, max_count)

\* pct = (count / initial_images * 100) if initial_images > 0 else 0,
\* as printed by format_line with '.0f'
PctOfInitial(count, initial) ==
    IF initial > 0 THEN RoundHalfEven(count * 100, initial) ELSE 0

format_line(label, count, percentage, max_count) ==
    IF count = None
    THEN [kind |-> "n/a", label |-> label, count |-> None, bar |-> 0, pct |-> None]
    ELSE [kind |-> "stage", label |-> label, count |-> count,
          bar |-> make_bar(count, max_count), pct |-> percentage]

NoteLine(label, count) ==
    [kind |-> "note", label |-> label, count |-> count, bar |-> 0, pct |-> None]

\* next((p for p in phases if word in p.name), None): its index, 0 if none
FirstPhase(phases, names) ==
    LET found == { k \in 1..Len(phases) : phases[k].name \in names }
    IN  IF found = {} THEN 0 ELSE CHOOSE k \in found : \A m \in found : k <= m

Truthy(n) == n # None /\ n # 0

generate_waterfall(a) ==
    LET init == a.initial_images
        conv == FirstPhase(a.phases, {"File Conversion"})
        reg == FirstPhase(a.phases, {"Registration"})
        regCount == IF reg # 0 /\ Truthy(a.phases[reg].image_count_out)
                    THEN a.phases[reg].image_count_out
                    ELSE a.plate_solve_successes
        pre_stack == IF a.plate_solve_successes # 0
                     THEN a.plate_solve_successes ELSE init
    IN  <<format_line("Initial Images", init, 100, init)>>
        \o (IF conv # 0 /\ Truthy(a.phases[conv].image_count_out)
            THEN <<format_line("After Conversion", a.phases[conv].image_count_out,
                     PctOfInitial(a.phases[conv].image_count_out, init), init)>>
            ELSE <<>>)
        \o (IF a.plate_solve_successes > 0
            THEN <<format_line("After Plate Solving", a.plate_solve_successes,
                     PctOfInitial(a.plate_solve_successes, init), init)>>
                 \o Opt(a.plate_solve_failures > 0,
                        NoteLine("Failed to solve", a.plate_solve_failures))
            ELSE <<>>)
        \o (IF reg # 0
            THEN <<format_line("After Registration", regCount,
                     PctOfInitial(regCount, init), init)>>
            ELSE <<>>)
        \o (IF a.final_images > 0
            THEN <<format_line("Final Stacked Images", a.final_images,
                     PctOfInitial(a.final_images, init), init)>>
                 \o Opt(pre_stack - a.final_images > 0,
                        NoteLine("Rejected/Filtered", pre_stack - a.final_images))
            ELSE <<>>)

\* ------------------------------------------------ _generate_recommendations
Rec(kind, value) == [kind |-> kind, value |-> value]

\* the plate-solve recommendation; success_rate divides by total
PlateRec(a) ==
    LET s == a.plate_solve_successes
        total == s + a.plate_solve_failures
        \* s / total * 100 >= limit, for either sign of total
        AtLeast(limit) == IF total > 0 THEN s * 100 >= limit * total
                          ELSE s * 100 <= limit * total
    IN  IF AtLeast(RateExcellent) THEN Rec("plate_excellent", 0)
        ELSE IF AtLeast(RateGood) THEN Rec("plate_good", 0)
        ELSE Rec("plate_low", 0)

\* the retention recommendation, with the loss it prints ('.0f')
RetentionRec(a) ==
    LET f == a.final_images
        i == a.initial_images
        loss == RoundHalfEven(100 * i - 100 * f, i)
    IN  IF f * 100 >= RetentionNormal * i THEN Rec("retention_normal", loss)
        ELSE IF f * 100 >= RetentionReview * i THEN Rec("retention_review", loss)
        ELSE Rec("retention_high_loss", loss)

FwhmEvaluated(a) == a.fwhm_values # <<>> /\ Len(a.fwhm_values) > MinFwhmSamples

FwhmRec(a) ==
    Opt(FwhmEvaluated(a)
        /\ SeqMax(a.fwhm_values) - SeqMin(a.fwhm_values) > FwhmRangeLimit,
        Rec("fwhm_variation", 0))

\* the list returned, or the exception raised instead of returning
_generate_recommendations(a) ==
    IF a.plate_solve_successes > 0
       /\ a.plate_solve_successes + a.plate_solve_failures = 0
    THEN [raised |-> "ZeroDivisionError", recs |-> <<>>]
    ELSE LET recs == Opt(a.plate_solve_successes > 0, PlateRec(a))
                     \o Opt(a.initial_images > 0 /\ a.final_images > 0,
                            RetentionRec(a))
                     \o FwhmRec(a)
         IN  [raised |-> "none",
              recs |-> IF recs = <<>> THEN <<Rec("none", 0)>> ELSE recs]

\* --------------------------------------------------------- generate_summary
RECURSIVE SumDurations(_, _)
SumDurations(phases, i) ==
    IF i > Len(phases) THEN 0
    ELSE phases[i].duration + SumDurations(phases, i + 1)

\* section [1]: the phases listed with their duration, <<>> when the total
\* duration is not positive ("Unable to determine")
ExecutionTimes(a) ==
    IF SumDurations(a.phases, 1) > 0
    THEN SelectSeq(a.phases, LAMBDA p : p.duration # 0)
    ELSE <<>>

\* section [3]: the labels of the metric lines; the plate-solve success rate
\* divides by successes + failures
QualityMetrics(a) ==
    <<"Initial Images", "Final Stacked Images">>
    \o Opt(a.initial_images > 0 /\ a.final_images > 0, "Overall Retention")
    \o Opt(a.plate_solve_successes > 0, "Plate Solve Success")
    \o Opt(a.fwhm_values # <<>>, "FWHM Range")
    \o Opt(a.rejection_stats # <<>>, "Pixel Rejection")

NoReport ==
    [kind |-> "none", times |-> <<>>, waterfall |-> <<>>, metrics |-> <<>>,
     patterns |-> <<>>, recs |-> <<>>]

\* the report returned, or the exception raised instead of returning
generate_summary(a) ==
    IF a.plate_solve_successes > 0
       /\ a.plate_solve_successes + a.plate_solve_failures = 0
    THEN [raised |-> "ZeroDivisionError", report |-> NoReport]
    ELSE LET r == _generate_recommendations(a)
         IN  IF r.raised # "none"
             THEN [raised |-> r.raised, report |-> NoReport]
             ELSE [raised |-> "none",
                   report |-> [kind |-> "summary",
                               times |-> ExecutionTimes(a),
                               waterfall |-> generate_waterfall(a),
                               metrics |-> QualityMetrics(a),
                               patterns |-> a.patterns,
                               recs |-> r.recs]]

\* ------------------------------------------------------------------- parse
\* an exception handler that records nothing
ReadFailureSilent(a) == a

\* except Exception as e: self.analysis.errors.append(...)
ReadFailure(a) == [a EXCEPT !.errors = Append(a.errors, "Failed to read log file")]

\* ----------------------------------------------------------------- actions
ReadOk ==
    /\ pc = "start"
    /\ file.readable
    /\ log_lines' = file.lines
    /\ pc' = "initial_info"
    /\ UNCHANGED <<file, analysis, raised, output>>

ReadFail ==
    /\ pc = "start"
    /\ ~file.readable
    /\ analysis' = ReadFailure(analysis)
    /\ pc' = "parsed"
    /\ UNCHANGED <<file, log_lines, raised, output>>

ExtractInitialInfo ==
    /\ pc = "initial_info"
    /\ analysis' = _extract_initial_info(analysis, log_lines)
    /\ pc' = "conversion"
    /\ UNCHANGED <<file, log_lines, raised, output>>

ExtractConversion ==
    /\ pc = "conversion"
    /\ analysis' = _extract_conversion_phase(analysis, log_lines)
    /\ pc' = "plate_solve"
    /\ UNCHANGED <<file, log_lines, raised, output>>

ExtractPlateSolve ==
    /\ pc = "plate_solve"
    /\ analysis' = _extract_plate_solve_phase(analysis, log_lines)
    /\ pc' = "background"
    /\ UNCHANGED <<file, log_lines, raised, output>>

ExtractBackground ==
    /\ pc = "background"
    /\ analysis' = _extract_background_phase(analysis, log_lines)
    /\ pc' = "registration"
    /\ UNCHANGED <<file, log_lines, raised, output>>

ExtractRegistration ==
    /\ pc = "registration"
    /\ analysis' = _extract_registration_phase(analysis, log_lines)
    /\ pc' = "stacking"
    /\ UNCHANGED <<file, log_lines, raised, output>>

ExtractStacking ==
    /\ pc = "stacking"
    /\ LET r == _extract_stacking_phase(analysis, log_lines)
       IN  /\ analysis' = r.analysis
           /\ raised' = r.raised
           /\ pc' = IF r.raised = "none" THEN "patterns" ELSE "parse_raised"
    /\ UNCHANGED <<file, log_lines, output>>

DetectPatterns ==
    /\ pc = "patterns"
    /\ analysis' = _detect_patterns(analysis)
    /\ pc' = "parsed"
    /\ UNCHANGED <<file, log_lines, raised, output>>

\* main with --waterfall-only
GenerateWaterfall ==
    /\ pc = "parsed"
    /\ output' = [NoReport EXCEPT !.kind = "waterfall",
                                  !.waterfall = generate_waterfall(analysis)]
    /\ pc' = "done"
    /\ UNCHANGED <<file, log_lines, analysis, raised>>

\* main without --waterfall-only
GenerateSummary ==
    /\ pc = "parsed"
    /\ LET r == generate_summary(analysis)
       IN  /\ output' = r.report
           /\ raised' = r.raised
           /\ pc' = IF r.raised = "none" THEN "done" ELSE "report_raised"
    /\ UNCHANGED <<file, log_lines, analysis>>

Next ==
    \/ ReadOk
    \/ ReadFail
    \/ ExtractInitialInfo
    \/ ExtractConversion
    \/ ExtractPlateSolve
    \/ ExtractBackground
    \/ ExtractRegistration
    \/ ExtractStacking
    \/ DetectPatterns
    \/ GenerateWaterfall
    \/ GenerateSummary

\* ------------------------------------------------------------------ inputs
Files(lineSet, n) ==
    {UnreadableFile} \cup { ReadableFile(l) : l \in SeqsUpTo(lineSet, n) }

InitWith(files) ==
    /\ file \in files
    /\ pc = "start"
    /\ log_lines = <<>>
    /\ analysis = LogAnalysis
    /\ raised = "none"
    /\ output = NoReport

\* logs of a whole run: conversion, plate solving, registration, stacking
Counts == 1..MaxCount
SummaryPairs == { <<MaxCount - 1, MaxCount>>, <<MaxCount, MaxCount>>,
                  <<1, MaxCount>>, <<1, 0>> }
StackedAndComplete(n) == [StackingComplete EXCEPT !.stacked = n]
ReportLines ==
    { At(0, ConvertProcessing(n)) : n \in Counts }
    \cup { At(1, ConvertedFiles(n)) : n \in {MaxCount - 1, MaxCount} }
    \cup { At(1, SummaryLine(x[1], x[2])) : x \in SummaryPairs }
    \cup { At(1, RegistrationLine) }
    \cup { At(MaxT, StackedAndComplete(n)) : n \in Counts }
    \cup { RejectionLine(0, BadFloat, 1) }

Init == InitWith(Files(ReportLines, MaxLen))
Spec == Init /\ [][Next]_vars

\* logs of a plate-solving run: per-image lines and summary lines
PlatePairs == { <<1, MaxCount>>, <<MaxCount, MaxCount - 1>>, <<0, 2>> }
PlateLines ==
    { At(0, SolvedLine), At(1, NotSolvedLine) }
    \cup { At(MaxT, SummaryLine(x[1], x[2])) : x \in PlatePairs }
    \cup { At(MaxT, [Blank EXCEPT !.psSum = TRUE]),
           At(1, [SolvedLine EXCEPT !.psSum = TRUE, !.sumN = 2, !.sumM = 2]) }

InitPlate == InitWith(Files(PlateLines, MaxLen))
SpecPlate == InitPlate /\ [][Next]_vars

\* logs of runs cut short: phase markers with and without a time, and the
\* rejection lines of the stacking
RejectionPairs == { <<1, 2>>, <<3, 4>> }
StackLines ==
    { At(t, StartingStacking) : t \in {None, 0} }
    \cup { At(t, StackingComplete) : t \in {None, MaxT} }
    \cup { At(0, ConvertProcessing(1)), At(MaxT, ConvertedFiles(1)),
           At(MaxT, SummaryLine(1, 1)) }
    \cup { RejectionLine(c, x[1], x[2]) : c \in {0, 1}, x \in RejectionPairs }
    \cup { [At(0, StartingStacking) EXCEPT !.rej = TRUE, !.rejCh = 0,
                                           !.rejLow = 5, !.rejHigh = 6] }

InitStack == InitWith(Files(StackLines, MaxLen))
SpecStack == InitStack /\ [][Next]_vars

\* logs of FWHM samples: 1.0 and 3.5 pixels, and at most one of 3.0
FwhmFiles ==
    {UnreadableFile}
    \cup { ReadableFile(l \o t) :
             l \in SeqsUpTo({FwhmLine(10), FwhmLine(35)}, MaxFwhmLen - 1),
             t \in {<<>>, <<FwhmLine(30)>>} }

InitFwhm == InitWith(FwhmFiles)
SpecFwhm == InitFwhm /\ [][Next]_vars

\* logs with repeated start markers: "Convert: processing" and "Starting
\* stacking" lines at different times and without a time, and one end line each
StartLinesOfRun ==
    { At(t, ConvertProcessing(1)) : t \in {None, 0, 1} }
    \cup { At(t, StartingStacking) : t \in {None, 0, 1} }
    \cup { At(MaxT, ConvertedFiles(1)), At(MaxT, StackingComplete) }

InitStarts == InitWith(Files(StartLinesOfRun, MaxLen))
SpecStarts == InitStarts /\ [][Next]_vars

\* logs of a stacking: "Starting stacking" and "N images have been stacked"
\* lines, then the end line (with or without a count of its own), then at
\* most one more count line or end line
WindowFiles ==
    {UnreadableFile}
    \cup { ReadableFile(before \o <<end>> \o after) :
             before \in SeqsUpTo({At(0, StartingStacking), StackedLine(1),
                                  StackedLine(2)}, MaxBefore),
             end \in {At(MaxT, StackingComplete),
                      At(MaxT, StackedAndComplete(3))},
             after \in {<<>>, <<StackedLine(4)>>,
                        <<At(MaxT, StackingComplete)>>} }

InitWindow == InitWith(WindowFiles)
SpecWindow == InitWindow /\ [][Next]_vars

\* logs holding the markers of all five phases, each line at most once and in
\* any order: the conversion ends after it starts, the stacking before
RECURSIVE Arrangements(_, _)
Arrangements(S, n) ==
    IF n = 0 THEN {<<>>}
    ELSE {<<>>} \cup UNION { { <<x>> \o t : t \in Arrangements(S \ {x}, n - 1) } :
                                x \in S }

PhaseLines ==
    { At(1, ConvertProcessing(2)), At(MaxT, ConvertedFiles(2)),
      At(MaxT, SolvedLine), At(1, BackgroundLine), At(0, RegistrationLine),
      At(MaxT, StartingStacking), At(0, StackingComplete) }

PhaseFiles ==
    {UnreadableFile}
    \cup { ReadableFile(l) : l \in Arrangements(PhaseLines, MaxPhaseLen) }

InitPhases == InitWith(PhaseFiles)
SpecPhases == InitPhases /\ [][Next]_vars

\* ------------------------------------------------------------- the claims
Returned == pc \in {"parsed", "done", "report_raised"}
Names(phases) == { phases[k].name : k \in 1..Len(phases) }
Stages(w) == SelectSeq(w, LAMBDA l : l.kind = "stage")
Kinds(recs) == { recs[k].kind : k \in 1..Len(recs) }

\* C1: for every record parse() produces with initial_images > 0, the
\* percentages generate_waterfall prints do not increase from one rendered
\* stage to the next (so none exceeds the 100% of the first).
C1_WaterfallMonotone ==
    (pc = "done" /\ analysis.initial_images > 0) =>
        LET st == Stages(output.waterfall)
        IN  \A k \in 1..(Len(st) - 1) : st[k + 1].pct <= st[k].pct

\* C4: parse() followed by generate_waterfall() or generate_summary() never
\* lets an exception escape, whatever the lines of the log.
C4_NoException == raised = "none"

\* C6: _generate_recommendations returns a non-empty list for every record
\* parse() returns, and the fallback entry is there exactly when no plate-solve,
\* retention or FWHM recommendation is, and then alone.
C6_RecommendationsNonEmpty ==
    Returned =>
        LET r == _generate_recommendations(analysis)
            specific == Kinds(r.recs) \ {"none"}
        IN  /\ r.raised = "none"
            /\ Len(r.recs) > 0
            /\ ("none" \in Kinds(r.recs)) <=> (specific = {})
            /\ ("none" \in Kinds(r.recs)) => Len(r.recs) = 1

RetentionKinds == {"retention_normal", "retention_review", "retention_high_loss"}

\* C7: for every record with initial_images > 0 and final_images > 0 exactly
\* one retention recommendation is returned, the band chosen by
\* final / initial * 100 against 80 and 60 and citing loss = 100 - retention;
\* with either count 0 there is none.
C7_RetentionRecommendation ==
    Returned =>
        LET r == _generate_recommendations(analysis)
            ret == SelectSeq(r.recs, LAMBDA x : x.kind \in RetentionKinds)
            f == analysis.final_images
            i == analysis.initial_images
        IN  IF i > 0 /\ f > 0
            THEN /\ r.raised = "none"
                 /\ Len(ret) = 1
                 /\ ret[1].kind = (IF 100 * f >= 80 * i THEN "retention_normal"
                                   ELSE IF 100 * f >= 60 * i THEN "retention_review"
                                   ELSE "retention_high_loss")
                 /\ ret[1].value = RoundHalfEven(100 * (i - f), i)
            ELSE Len(ret) = 0

\* C10: with initial_images > 0 every rendered stage's bar has
\* round(count / initial_images * 40) fill characters, at most 40.
C10_BarRoundsToNearest ==
    (pc = "done" /\ analysis.initial_images > 0) =>
        LET st == Stages(output.waterfall)
        IN  \A k \in 1..Len(st) :
                /\ st[k].bar = RoundHalfEven(st[k].count * 40, analysis.initial_images)
                /\ st[k].bar <= 40

Last(S) == CHOOSE k \in S : \A j \in S : j <= k
Lines(P(_)) == { k \in 1..Len(log_lines) : P(log_lines[k]) }
PlateDone == pc \notin {"start", "initial_info", "conversion", "plate_solve"}
StackDone == pc \in {"patterns", "parsed", "done", "report_raised"}

\* the line is handled by the summary branch and its pattern matches
ActsAsSummary(l) == ~l.psOk /\ ~l.psFail /\ l.psSum /\ l.sumN # None

\* C2 as stated: a log with a summary line "N images successfully platesolved
\* out of M" ends the pass with plate_solve_successes = N and
\* plate_solve_failures = M - N, whatever per-image lines it holds.
C2_SummaryWins ==
    (PlateDone /\ Lines(ActsAsSummary) # {}) =>
        LET l == log_lines[Last(Lines(ActsAsSummary))]
        IN  /\ analysis.plate_solve_successes = l.sumN
            /\ analysis.plate_solve_failures = l.sumM - l.sumN

\* C2 amended: the pass ends with successes = N plus the number of
\* "platesolved and updated" lines after the last summary line and failures =
\* M - N plus the number of "did not solve" lines after it; the summary line
\* wins over the per-image counters when no per-image line follows it.
C2_SummaryWinsOverEarlierLines ==
    (PlateDone /\ Lines(ActsAsSummary) # {}) =>
        LET last == Last(Lines(ActsAsSummary))
            l == log_lines[last]
            okAfter == { k \in Lines(LAMBDA x : x.psOk) : k > last }
            failAfter == { k \in Lines(LAMBDA x : ~x.psOk /\ x.psFail) : k > last }
        IN  /\ analysis.plate_solve_successes = l.sumN + Cardinality(okAfter)
            /\ analysis.plate_solve_failures
                 = l.sumM - l.sumN + Cardinality(failAfter)

\* C2 witness: per-image lines, then a last summary line that disagrees with
\* their count, and the pass has run
C2_Witness ==
    /\ PlateDone
    /\ Lines(ActsAsSummary) # {}
    /\ Last(Lines(ActsAsSummary)) = Len(log_lines)
    /\ Lines(LAMBDA x : x.psOk) # {}
    /\ Cardinality(Lines(LAMBDA x : x.psOk)) # analysis.plate_solve_successes
    /\ analysis.plate_solve_failures > 0

\* the lines a pass takes as the start and as the end of its phase, with a
\* time it can read
Timed(l) == _parse_timestamp(l) # None
PhaseNames == {"File Conversion", "Plate Solving", "Background Extraction",
               "Registration", "Stacking"}
StartLines(name) ==
    Lines(LAMBDA l : Timed(l) /\
        CASE name = "File Conversion" -> l.convStart
          [] name = "Plate Solving" -> l.psOk \/ l.psFail
          [] name = "Background Extraction" -> l.bg
          [] name = "Registration" -> l.reg
          [] name = "Stacking" -> l.stStart)
EndLines(name) ==
    Lines(LAMBDA l : Timed(l) /\
        CASE name = "File Conversion" -> ~l.convStart /\ l.convEnd
          [] name = "Plate Solving" -> l.psOk \/ l.psFail \/ l.psSum
          [] name = "Background Extraction" -> l.bg
          [] name = "Registration" -> l.reg
          [] name = "Stacking" -> ~l.stStart /\ l.stEnd)

\* C3: a phase whose start marker was found but whose end marker was not (or
\* the reverse) is never appended to analysis.phases and never listed in the
\* execution-time section of generate_summary.
C3_HalfOpenPhaseOmitted ==
    \A name \in PhaseNames :
        (StartLines(name) = {} \/ EndLines(name) = {}) =>
            /\ name \notin Names(analysis.phases)
            /\ name \notin Names(output.times)

\* C3 witness: "Starting stacking" with a time and no stacking end line, the
\* summary is rendered and lists another phase
C3_Witness ==
    /\ pc = "done"
    /\ output.kind = "summary"
    /\ StartLines("Stacking") # {}
    /\ Lines(LAMBDA l : l.stEnd) = {}
    /\ output.times # <<>>

\* C5 as stated: an empty or unreadable input file gives a record with exactly
\* one entry in errors and every other field at its default, and
\* generate_summary completes on it.
C5_EmptyOrUnreadable ==
    ((~file.readable \/ file.lines = <<>>) /\ Returned) =>
        /\ raised = "none"
        /\ Len(analysis.errors) = 1
        /\ [analysis EXCEPT !.errors = <<>>] = LogAnalysis

\* C5 amended: an unreadable file gives a record with exactly one entry in
\* errors, an empty file a record with none; in both cases there is no phase,
\* every other field is at its default, and parse and generate_summary
\* complete without raising.
C5_UnreadableOneErrorEmptyNone ==
    (~file.readable \/ file.lines = <<>>) =>
        /\ raised = "none"
        /\ pc \notin {"parse_raised", "report_raised"}
        /\ Returned =>
              /\ Len(analysis.errors) = (IF file.readable THEN 0 ELSE 1)
              /\ [analysis EXCEPT !.errors = <<>>] = LogAnalysis
        /\ (pc = "done" /\ output.kind = "summary") =>
              /\ output.times = <<>>
              /\ output.metrics = <<"Initial Images", "Final Stacked Images">>

\* C5 witness: the file could not be read and the summary was rendered
C5_Witness ==
    /\ ~file.readable
    /\ pc = "done"
    /\ output.kind = "summary"
    /\ Len(analysis.errors) = 1

\* the line is handled by the rejection branch for channel c
ActsAsRejection(l, c) == ~l.stStart /\ ~l.stEnd /\ l.rej /\ l.rejCh = c
\* the line holds "Pixel rejection in channel #c: L% - H%"
HoldsRejection(l, c) == l.rej /\ l.rejCh = c
ChannelsSeen == { log_lines[k].rejCh : k \in Lines(LAMBDA l : l.rej) } \ {None}
Entries(c) ==
    { k \in 1..Len(analysis.rejection_stats) :
          analysis.rejection_stats[k].channel = c }
EntryIs(c, l) ==
    \A k \in Entries(c) :
        /\ analysis.rejection_stats[k].low = l.rejLow
        /\ analysis.rejection_stats[k].high = l.rejHigh

\* C8 as stated: after the stacking pass rejection_stats has at most one
\* entry per channel, and the entry of channel C is the pair of the last line
\* of the log holding "Pixel rejection in channel #C: L% - H%".
C8_LastRejectionLineWins ==
    StackDone =>
        \A c \in ChannelsSeen :
            LET m == Lines(LAMBDA l : HoldsRejection(l, c))
            IN  /\ Cardinality(Entries(c)) = 1
                /\ EntryIs(c, log_lines[Last(m)])

\* C8 amended: the same, over the lines that hold the rejection pattern and
\* are not themselves a "Starting stacking" or stacking end line; a channel
\* with no such line has no entry.
C8_LastRejectionBranchWins ==
    StackDone =>
        /\ \A k \in 1..Len(analysis.rejection_stats) :
               analysis.rejection_stats[k].channel \in ChannelsSeen
        /\ \A c \in ChannelsSeen :
            LET m == Lines(LAMBDA l : ActsAsRejection(l, c))
            IN  IF m = {} THEN Entries(c) = {}
                ELSE /\ Cardinality(Entries(c)) = 1
                     /\ EntryIs(c, log_lines[Last(m)])

\* C8 witness: two rejection lines of one channel with different pairs, and
\* the stacking pass has run
C8_Witness ==
    /\ StackDone
    /\ \E c \in ChannelsSeen :
         \E j, k \in Lines(LAMBDA l : ActsAsRejection(l, c)) :
            /\ j < k
            /\ log_lines[j].rejLow # log_lines[k].rejLow
            /\ Entries(c) # {}

\* C9: the FWHM-variation recommendation is returned exactly when there are
\* at least 10 FWHM samples and max - min > 2.0 pixels.
C9_FwhmVariation ==
    Returned =>
        LET r == _generate_recommendations(analysis)
            v == analysis.fwhm_values
        IN  /\ r.raised = "none"
            /\ ("fwhm_variation" \in Kinds(r.recs))
                 <=> (Len(v) >= 10 /\ SeqMax(v) - SeqMin(v) > 20)

First(S) == CHOOSE k \in S : \A j \in S : k <= j
ConvDone == pc \notin {"start", "initial_info", "conversion"}
PhaseNamed(name) == { k \in 1..Len(analysis.phases) : analysis.phases[k].name = name }

\* what the phase would be if its start_time were the time of the first of
\* the start lines S and its end_time the time of the last of the end lines E:
\* listed once, with that start and the duration up to that end, when both
\* times exist, and not listed otherwise
StartsAtFirst(name, S, E) ==
    LET t0 == _parse_timestamp(log_lines[First(S)])
        te == IF E = {} THEN None ELSE _parse_timestamp(log_lines[Last(E)])
    IN  IF t0 # None /\ te # None
        THEN /\ Cardinality(PhaseNamed(name)) = 1
             /\ \A k \in PhaseNamed(name) :
                    /\ analysis.phases[k].start_time = t0
                    /\ analysis.phases[k].duration = te - t0
        ELSE PhaseNamed(name) = {}

\* C11: for the Conversion and Stacking phases start_time is the timestamp of
\* the first start-marker line of the log ("Convert: processing" / "Starting
\* stacking"); later start-marker lines do not change it, so the reported
\* duration runs from the first start marker to the end marker.
C11_FirstStartMarkerWins ==
    /\ (ConvDone /\ Lines(LAMBDA l : l.convStart) # {}) =>
          StartsAtFirst("File Conversion", Lines(LAMBDA l : l.convStart),
                        Lines(LAMBDA l : ~l.convStart /\ l.convEnd))
    /\ (StackDone /\ Lines(LAMBDA l : l.stStart) # {}) =>
          StartsAtFirst("Stacking", Lines(LAMBDA l : l.stStart),
                        Lines(LAMBDA l : ~l.stStart /\ l.stEnd))

\* the lines handled by the stacking end branch
EndActs == Lines(LAMBDA l : ~l.stStart /\ l.stEnd)
\* the lines holding "N images have been stacked" among the n lines that end
\* with line i
CountLines(i, n) ==
    { j \in 1..Len(log_lines) :
          j <= i /\ j > i - n /\ log_lines[j].stacked # None }
\* the count the stacking pass ends with when every end line searches n
\* lines: that of the first count line in the window of the last end line
\* that has one, None when no end line has one
CountFound(n) ==
    LET found == { i \in EndActs : CountLines(i, n) # {} }
    IN  IF found = {} THEN None
        ELSE log_lines[First(CountLines(Last(found), n))].stacked
CountIsFrom(n) ==
    /\ analysis.final_images = (IF CountFound(n) = None THEN 0 ELSE CountFound(n))
    /\ \A k \in PhaseNamed("Stacking") :
           analysis.phases[k].image_count_out = CountFound(n)

\* C12 as stated: on a stacking end line the stacked-image count is searched
\* in the end line and the lines immediately before it, at most 5 lines in
\* all; the first line of that window holding "N images have been stacked"
\* sets image_count_out and final_images to N, and a line outside it never does.
C12_WindowOfFive == StackDone => CountIsFrom(5)

\* C12 amended: the window is the end line and the 5 lines immediately before
\* it, at most 6 lines in all; the first line of that window holding
\* "N images have been stacked" sets image_count_out and final_images to N,
\* and a line before the window or after the end line never does.
C12_WindowOfSix == StackDone => CountIsFrom(6)

\* C12 witness: the count is taken from the line 5 before the end line, with a
\* different count 6 before it and another after it, and Stacking is listed
C12_Witness ==
    /\ StackDone
    /\ PhaseNamed("Stacking") # {}
    /\ \E i \in EndActs :
          /\ i > 6
          /\ i < Len(log_lines)
          /\ CountLines(i, 5) = {}
          /\ CountLines(i, 6) = {i - 5}
          /\ log_lines[i - 6].stacked \notin {None, log_lines[i - 5].stacked}
          /\ log_lines[i + 1].stacked \notin {None, log_lines[i - 5].stacked}
          /\ analysis.final_images = log_lines[i - 5].stacked

\* the place of a phase in the order of the extraction calls
CallOrder(name) ==
    CASE name = "File Conversion" -> 1
      [] name = "Plate Solving" -> 2
      [] name = "Background Extraction" -> 3
      [] name = "Registration" -> 4
      [] name = "Stacking" -> 5
TimesOf(S) == { _parse_timestamp(log_lines[k]) : k \in S }

\* C13: analysis.phases is a subsequence of (File Conversion, Plate Solving,
\* Background Extraction, Registration, Stacking) in that order, whatever the
\* order of the markers in the log; each phase name occurs at most once; every
\* phase listed has a start_time and an end_time, read from lines of the log
\* that carry its markers, and duration = end_time - start_time, zero and
\* negative values included.
C13_PhasesInCallOrder ==
    LET ph == analysis.phases
    IN  /\ \A k \in 1..Len(ph) : ph[k].name \in PhaseNames
        /\ \A j, k \in 1..Len(ph) :
               j < k => CallOrder(ph[j].name) < CallOrder(ph[k].name)
        /\ \A k \in 1..Len(ph) :
               /\ ph[k].start_time \in TimesOf(StartLines(ph[k].name))
               /\ ph[k].end_time \in TimesOf(EndLines(ph[k].name))
               /\ ph[k].duration = ph[k].end_time - ph[k].start_time

\* C13 witness: all five phases are listed although the log has the stacking
\* markers first and the conversion markers last, with a positive, a zero and
\* a negative duration among them
C13_Witness ==
    /\ Returned
    /\ Len(analysis.phases) = 5
    /\ Last(Lines(LAMBDA l : l.stStart \/ l.stEnd))
         < First(Lines(LAMBDA l : l.convStart \/ l.convEnd))
    /\ \E i, j, k \in 1..5 :
          /\ analysis.phases[i].duration > 0
          /\ analysis.phases[j].duration = 0
          /\ analysis.phases[k].duration < 0

====
